---- MODULE Spec2Model ----
(***************************************************************************)
(* Model of fix_eslint_errors.py: the five line-rewriting rules and the     *)
(* batch loop of main().  Text is a sequence of one-character strings; the  *)
(* regular expressions of the rules are sequences of pattern items that a   *)
(* small backtracking matcher interprets the way Python's re does.          *)
(***************************************************************************)
EXTENDS Integers, Sequences, FiniteSets, TLC

VARIABLES fix_type, detail, line_num, hist, status,
          fixes, disk, disk0, idx, files_processed, log, pc

vars == <<fix_type, detail, line_num, hist, status,
          fixes, disk, disk0, idx, files_processed, log, pc>>

ruleVars == <<fix_type, detail, line_num, hist, status>>
mainVars == <<fixes, disk, disk0, idx, files_processed, log, pc>>

(***************************************************************************)
(* Bounds of the model.                                                    *)
(***************************************************************************)
MaxFrags == 3
MaxLines == 2
MaxNames == 3
MaxApply == 2
MaxEntries == 2

(***************************************************************************)
(* Characters.                                                             *)
(***************************************************************************)
NL == "\n"

WordChars ==
  {"a","b","c","d","e","f","g","h","i","j","k","l","m","n","o","p","q","r",
   "s","t","u","v","w","x","y","z","A","B","C","D","E","F","G","H","I","J",
   "K","L","M","N","O","P","Q","R","S","T","U","V","W","X","Y","Z",
   "0","1","2","3","4","5","6","7","8","9","_"}

SpaceChars == {" ", "\t"}

IsWord(c) == c \in WordChars
IsSpace(c) == c \in SpaceChars

(***************************************************************************)
(* str.split('\n') and '\n'.join(lines).                                   *)
(***************************************************************************)
RECURSIVE split(_)
split(content) ==
  IF \A i \in 1..Len(content) : content[i] # NL
  THEN <<content>>
  ELSE LET p == CHOOSE i \in 1..Len(content) :
                   /\ content[i] = NL
                   /\ \A j \in 1..(i-1) : content[j] # NL
       IN <<SubSeq(content, 1, p-1)>> \o split(SubSeq(content, p+1, Len(content)))

RECURSIVE join(_)
join(lines) ==
  IF Len(lines) = 0 THEN <<>>
  ELSE IF Len(lines) = 1 THEN lines[1]
  ELSE lines[1] \o <<NL>> \o join(Tail(lines))

\* 0 <= line_num - 1 < len(lines)
in_bounds(n, lines) == 0 <= n - 1 /\ n - 1 < Len(lines)

(***************************************************************************)
(* Pattern items: a literal character, \b, a greedy \s* or \s+, and an      *)
(* optional literal character (,?).                                        *)
(***************************************************************************)
Ch(c)   == <<[k |-> "ch",   c |-> c]>>
Opt(c)  == <<[k |-> "opt",  c |-> c]>>
WB      == <<[k |-> "wb",   c |-> ""]>>
SStar   == <<[k |-> "star", c |-> ""]>>
SPlus   == <<[k |-> "plus", c |-> ""]>>
Lit(s)  == [i \in 1..Len(s) |-> [k |-> "ch", c |-> s[i]]]

\* \b at offset i of s (i characters lie to the left)
at_word_boundary(s, i) ==
  LET l == i >= 1 /\ IsWord(s[i])
      r == i < Len(s) /\ IsWord(s[i+1])
  IN l # r

\* number of whitespace characters starting at offset i
RECURSIVE space_run(_, _)
space_run(s, i) ==
  IF i < Len(s) /\ IsSpace(s[i+1]) THEN 1 + space_run(s, i+1) ELSE 0

\* End offset of the match of items j.. of pat at offset i of s, or -1.
\* Greedy items try the longest repetition first and back off.
RECURSIVE match_from(_, _, _, _)
RECURSIVE match_rep(_, _, _, _, _, _)
match_from(pat, j, s, i) ==
  IF j > Len(pat) THEN i
  ELSE LET it == pat[j] IN
    CASE it.k = "ch" ->
           IF i < Len(s) /\ s[i+1] = it.c THEN match_from(pat, j+1, s, i+1) ELSE -1
      [] it.k = "wb" ->
           IF at_word_boundary(s, i) THEN match_from(pat, j+1, s, i) ELSE -1
      [] it.k = "opt" ->
           LET a == IF i < Len(s) /\ s[i+1] = it.c
                    THEN match_from(pat, j+1, s, i+1) ELSE -1
           IN IF a # -1 THEN a ELSE match_from(pat, j+1, s, i)
      [] it.k = "star" -> match_rep(pat, j, s, i, space_run(s, i), 0)
      [] it.k = "plus" -> match_rep(pat, j, s, i, space_run(s, i), 1)

match_rep(pat, j, s, i, n, min) ==
  IF n < min THEN -1
  ELSE LET a == match_from(pat, j+1, s, i+n)
       IN IF a # -1 THEN a ELSE match_rep(pat, j, s, i, n-1, min)

\* leftmost offset >= i at which pat matches, or -1
RECURSIVE find_from(_, _, _)
find_from(pat, s, i) ==
  IF i > Len(s) THEN -1
  ELSE IF match_from(pat, 1, s, i) # -1 THEN i
  ELSE find_from(pat, s, i+1)

\* re.search(pattern, line) is not None
re_search(pat, s) == find_from(pat, s, 0) # -1

\* re.match(pattern, line) is not None
re_match(pat, s) == match_from(pat, 1, s, 0) # -1

\* re.sub(pattern, repl, line, count): count = 0 replaces every
\* non-overlapping match, left to right
RECURSIVE sub_from(_, _, _, _, _)
sub_from(pat, repl, s, i, count) ==
  LET p == find_from(pat, s, i) IN
  IF p = -1 THEN SubSeq(s, i+1, Len(s))
  ELSE LET e == match_from(pat, 1, s, p) IN
       SubSeq(s, i+1, p) \o repl \o
         (IF count = 1 THEN SubSeq(s, e+1, Len(s))
          ELSE sub_from(pat, repl, s, e, IF count = 0 THEN 0 ELSE count - 1))

re_sub(pat, repl, s, count) == sub_from(pat, repl, s, 0, count)

\* re.compile of a pattern into which the detail was interpolated: an
\* unbalanced parenthesis is a re.error
RECURSIVE paren_depth(_, _)
paren_depth(s, d) ==
  IF d < 0 \/ Len(s) = 0 THEN d
  ELSE paren_depth(Tail(s), IF Head(s) = "(" THEN d + 1
                            ELSE IF Head(s) = ")" THEN d - 1 ELSE d)

re_compiles(name) == paren_depth(name, 0) = 0

Ok(v)  == [raised |-> FALSE, value |-> v]
Raise  == [raised |-> TRUE,  value |-> <<>>]

(***************************************************************************)
(* String literals of the source.                                          *)
(***************************************************************************)
s_request  == <<"r","e","q","u","e","s","t">>
s_const    == <<"c","o","n","s","t">>
s_let      == <<"l","e","t">>
s_any      == <<"a","n","y">>
s_as       == <<"a","s">>
s_import   == <<"i","m","p","o","r","t">>
s_unknown  == <<"u","n","k","n","o","w","n">>

(***************************************************************************)
(* The rules.  A family is a sequence of <<pattern, replacement>> pairs.    *)
(***************************************************************************)
\* for pattern, replacement in patterns: if re.search: re.sub(...); break
RECURSIVE first_match_sub(_, _, _, _)
first_match_sub(patterns, k, line, count) ==
  IF k > Len(patterns) THEN line
  ELSE IF re_search(patterns[k][1], line)
       THEN re_sub(patterns[k][1], patterns[k][2], line, count)
       ELSE first_match_sub(patterns, k+1, line, count)

unused_param_patterns ==
  << <<WB \o Lit(s_request) \o SStar \o Ch(":"), <<"_">> \o s_request \o <<":">> >>,
     <<WB \o Lit(s_request) \o SStar \o Ch(")"), <<"_">> \o s_request \o <<")">> >>,
     <<WB \o Lit(s_request) \o SStar \o Ch(","), <<"_">> \o s_request \o <<",">> >> >>

\* re.sub without count: every match of the winning sub-pattern
unused_param_line(line) == first_match_sub(unused_param_patterns, 1, line, 0)

fix_unused_request_param(content, n) ==
  LET lines == split(content) IN
  IF in_bounds(n, lines)
  THEN join([lines EXCEPT ![n] = unused_param_line(lines[n])])
  ELSE join(lines)

\* variant: no \b in front of the name in the ':', ')' and ',' sub-patterns
unused_var_patterns_nowb(var_name) ==
  << <<WB \o Lit(s_const) \o SPlus \o Lit(var_name) \o WB, s_const \o <<" ", "_">> \o var_name>>,
     <<WB \o Lit(s_let) \o SPlus \o Lit(var_name) \o WB,   s_let \o <<" ", "_">> \o var_name>>,
     <<Lit(var_name) \o SStar \o Ch(":"), <<"_">> \o var_name \o <<":">> >>,
     <<Lit(var_name) \o SStar \o Ch(")"), <<"_">> \o var_name \o <<")">> >>,
     <<Lit(var_name) \o SStar \o Ch(","), <<"_">> \o var_name \o <<",">> >>,
     <<Ch("=") \o SStar \o Lit(var_name) \o WB, <<"=", " ", "_">> \o var_name>> >>

unused_var_patterns(var_name) ==
  << <<WB \o Lit(s_const) \o SPlus \o Lit(var_name) \o WB, s_const \o <<" ", "_">> \o var_name>>,
     <<WB \o Lit(s_let) \o SPlus \o Lit(var_name) \o WB,   s_let \o <<" ", "_">> \o var_name>>,
     <<WB \o Lit(var_name) \o SStar \o Ch(":"), <<"_">> \o var_name \o <<":">> >>,
     <<WB \o Lit(var_name) \o SStar \o Ch(")"), <<"_">> \o var_name \o <<")">> >>,
     <<WB \o Lit(var_name) \o SStar \o Ch(","), <<"_">> \o var_name \o <<",">> >>,
     <<Ch("=") \o SStar \o Lit(var_name) \o WB, <<"=", " ", "_">> \o var_name>> >>

\* re.sub(..., count=1)
unused_var_line(line, var_name) ==
  first_match_sub(unused_var_patterns(var_name), 1, line, 1)

\* variant: the patterns are compiled before the bounds check
fix_unused_var_eager(content, n, var_name) ==
  LET lines == split(content) IN
  IF ~re_compiles(var_name) THEN Raise
  ELSE IF in_bounds(n, lines)
       THEN Ok(join([lines EXCEPT ![n] = unused_var_line(lines[n], var_name)]))
       ELSE Ok(join(lines))

\* the patterns are compiled by the first re.search, inside the bounds check
fix_unused_var(content, n, var_name) ==
  LET lines == split(content) IN
  IF in_bounds(n, lines)
  THEN IF re_compiles(var_name)
       THEN Ok(join([lines EXCEPT ![n] = unused_var_line(lines[n], var_name)]))
       ELSE Raise
  ELSE Ok(join(lines))

any_colon == Ch(":") \o SStar \o Lit(s_any) \o WB
any_angle == Ch("<") \o Lit(s_any) \o Ch(">")
any_as    == WB \o Lit(s_as) \o SPlus \o Lit(s_any) \o WB

\* variant: the three sub-patterns as a first-match-wins family
explicit_any_line_first_only(line) ==
  first_match_sub(<< <<any_colon, <<":", " ">> \o s_unknown>>,
                     <<any_angle, <<"<">> \o s_unknown \o <<">">> >>,
                     <<any_as, s_as \o <<" ">> \o s_unknown>> >>, 1, line, 0)

explicit_any_line(line) ==
  LET l1 == re_sub(any_colon, <<":", " ">> \o s_unknown, line, 0)
      l2 == re_sub(any_angle, <<"<">> \o s_unknown \o <<">">>, l1, 0)
  IN re_sub(any_as, s_as \o <<" ">> \o s_unknown, l2, 0)

fix_explicit_any(content, n) ==
  LET lines == split(content) IN
  IF in_bounds(n, lines)
  THEN join([lines EXCEPT ![n] = explicit_any_line(lines[n])])
  ELSE join(lines)

empty_colon == Ch(":") \o SStar \o Ch("{") \o SStar \o Ch("}")
empty_angle == Ch("<") \o Ch("{") \o SStar \o Ch("}") \o Ch(">")

empty_object_line(line) ==
  LET l1 == re_sub(empty_colon, <<":", " ">> \o s_unknown, line, 0)
  IN re_sub(empty_angle, <<"<">> \o s_unknown \o <<">">>, l1, 0)

fix_empty_object_type(content, n) ==
  LET lines == split(content) IN
  IF in_bounds(n, lines)
  THEN join([lines EXCEPT ![n] = empty_object_line(lines[n])])
  ELSE join(lines)

single_import(import_name) ==
  Lit(s_import) \o SPlus \o Ch("{") \o SStar \o Lit(import_name) \o SStar \o Ch("}")
name_in_list(import_name) == Opt(",") \o SStar \o Lit(import_name) \o SStar \o Opt(",")
double_comma   == Ch(",") \o SStar \o Ch(",")
leading_comma  == Ch("{") \o SStar \o Ch(",")
trailing_comma == Ch(",") \o SStar \o Ch("}")

unused_import_line(line, import_name) ==
  IF re_match(single_import(import_name), line)
  THEN <<>>
  ELSE LET l1 == re_sub(name_in_list(import_name), <<>>, line, 0)
           l2 == re_sub(double_comma, <<",">>, l1, 0)
           l3 == re_sub(leading_comma, <<"{">>, l2, 0)
       IN re_sub(trailing_comma, <<"}">>, l3, 0)

\* variant: the single import's line is deleted from the document
remove_unused_import_deleting(content, n, import_name) ==
  LET lines == split(content) IN
  IF in_bounds(n, lines)
  THEN IF re_compiles(import_name)
       THEN LET l == unused_import_line(lines[n], import_name)
            IN Ok(join(IF l = <<>>
                       THEN SubSeq(lines, 1, n-1) \o SubSeq(lines, n+1, Len(lines))
                       ELSE [lines EXCEPT ![n] = l]))
       ELSE Raise
  ELSE Ok(join(lines))

\* the first pattern is compiled by re.match, inside the bounds check
remove_unused_import(content, n, import_name) ==
  LET lines == split(content) IN
  IF in_bounds(n, lines)
  THEN IF re_compiles(import_name)
       THEN Ok(join([lines EXCEPT ![n] = unused_import_line(lines[n], import_name)]))
       ELSE Raise
  ELSE Ok(join(lines))

FixTypes == {"unused_param", "unused_var", "explicit_any", "empty_object", "unused_import"}

\* the if/elif chain of main
apply_fix(type, content, n, d) ==
  CASE type = "unused_param"  -> Ok(fix_unused_request_param(content, n))
    [] type = "unused_var"    -> fix_unused_var(content, n, d)
    [] type = "explicit_any"  -> Ok(fix_explicit_any(content, n))
    [] type = "empty_object"  -> Ok(fix_empty_object_type(content, n))
    [] type = "unused_import" -> remove_unused_import(content, n, d)
    [] OTHER                  -> Ok(content)

(***************************************************************************)
(* Inputs of the rules: the target line of a one-line document is a         *)
(* concatenation of at most MaxFrags fragments of the category (or a brace  *)
(* list of at most MaxNames names); documents of several lines are built    *)
(* from a small pool of lines that the category's rule rewrites.            *)
(***************************************************************************)
Frags(type) ==
  CASE type = "unused_param"  -> {<<"r","e","q","u","e","s","t">>, <<"r","e","q","u","e","s","t",":">>, <<":">>, <<")">>, <<",">>, <<" ">>, <<"_">>}
    [] type = "unused_var"    -> {<<"c","o","n","s","t">>, <<"l","e","t">>, <<" ">>, <<"d">>, <<"d",",">>, <<")">>, <<":">>, <<"=">>, <<"_">>}
    [] type = "explicit_any"  -> {<<":">>, <<" ">>, <<"a","n","y">>, <<":","a","n","y">>, <<"<","a","n","y",">">>, <<"a","s">>, <<"x">>}
    [] type = "empty_object"  -> {<<":">>, <<" ">>, <<"{">>, <<"}">>, <<"<","{">>, <<"}",">">>, <<":","{","}">>}
    [] type = "unused_import" -> {<<"i","m","p","o","r","t">>, <<" ">>, <<"{">>, <<"}">>, <<"d">>, <<",">>, <<"B">>}

Pool(type) ==
  CASE type = "unused_param"  -> {<<"r","e","q","u","e","s","t",":">>, <<"x">>}
    [] type = "unused_var"    -> {<<"c","o","n","s","t"," ","d">>, <<"x">>}
    [] type = "explicit_any"  -> {<<":","a","n","y">>, <<"x">>}
    [] type = "empty_object"  -> {<<":","{","}">>, <<"x">>}
    [] type = "unused_import" -> {<<"i","m","p","o","r","t"," ","{","d","}">>, <<"{","d",",","B","}">>}

RECURSIVE Concats(_, _)
Concats(F, n) ==
  IF n = 0 THEN {<<>>}
  ELSE LET shorter == Concats(F, n-1)
       IN shorter \cup {f \o t : f \in F, t \in shorter}

ImportNames == {<<"d">>, <<"B">>, <<"d","B">>}

RECURSIVE JoinWith(_, _)
JoinWith(names, sep) ==
  IF Len(names) = 1 THEN names[1]
  ELSE names[1] \o sep \o JoinWith(Tail(names), sep)

NameLists == UNION {[1..n -> ImportNames] : n \in 1..MaxNames}

ImportLines ==
  {s_import \o <<" ", "{">> \o pad \o JoinWith(names, sep) \o pad \o <<"}">> :
     names \in NameLists, sep \in {<<",">>, <<",", " ">>}, pad \in {<<>>, <<" ">>}}

RichLines(type) ==
  Concats(Frags(type), MaxFrags) \cup (IF type = "unused_import" THEN ImportLines ELSE {})

PoolDocs(type) ==
  {join(ls) : ls \in UNION {[1..n -> Pool(type)] : n \in 1..MaxLines}}

Inputs(type) ==
  {<<l, 1>> : l \in RichLines(type)} \cup (PoolDocs(type) \X ((-1)..(MaxLines + 1)))

\* a plain identifier, and a detail that is not one
Details == {<<"d">>, <<"(">>}

Files == {"a.ts", "b.ts"}
Missing == <<"<missing>">>

Init ==
  /\ fix_type \in FixTypes
  /\ detail \in Details
  /\ \E in \in Inputs(fix_type) : hist = <<in[1]>> /\ line_num = in[2]
  /\ status = "ok"
  /\ fixes = <<>>
  /\ disk = [f \in Files |-> Missing]
  /\ disk0 = disk
  /\ idx = 1
  /\ files_processed = {}
  /\ log = <<>>
  /\ pc = "rules"

Last(h) == h[Len(h)]

CanApply(type) ==
  /\ pc = "rules"
  /\ fix_type = type
  /\ status = "ok"
  /\ Len(hist) <= MaxApply

Returns(r) ==
  /\ IF r.raised
     THEN status' = "raised" /\ hist' = hist
     ELSE status' = status /\ hist' = Append(hist, r.value)
  /\ UNCHANGED <<fix_type, detail, line_num>>
  /\ UNCHANGED mainVars

FixUnusedRequestParam ==
  /\ CanApply("unused_param")
  /\ Returns(Ok(fix_unused_request_param(Last(hist), line_num)))

FixUnusedVar ==
  /\ CanApply("unused_var")
  /\ Returns(fix_unused_var(Last(hist), line_num, detail))

FixExplicitAny ==
  /\ CanApply("explicit_any")
  /\ Returns(Ok(fix_explicit_any(Last(hist), line_num)))

FixEmptyObjectType ==
  /\ CanApply("empty_object")
  /\ Returns(Ok(fix_empty_object_type(Last(hist), line_num)))

RemoveUnusedImport ==
  /\ CanApply("unused_import")
  /\ Returns(remove_unused_import(Last(hist), line_num, detail))

Next ==
  \/ FixUnusedRequestParam
  \/ FixUnusedVar
  \/ FixExplicitAny
  \/ FixEmptyObjectType
  \/ RemoveUnusedImport

Spec == Init /\ [][Next]_vars

(***************************************************************************)
(* main(): the batch loop over the catalog.  The disk maps a file to its    *)
(* content, or to Missing when the path does not exist.  log holds, for     *)
(* each entry processed so far, what main printed for it.                   *)
(***************************************************************************)
Entry(f, n, t, d) == [file |-> f, line |-> n, type |-> t, detail |-> d]

EntryPool ==
  { Entry("a.ts", 1, "unused_var", <<"d">>),
    Entry("a.ts", 2, "unused_var", <<"d">>),
    Entry("b.ts", 1, "explicit_any", <<>>),
    Entry("b.ts", 1, "unused_var", <<"(">>) }

Catalogs == UNION {[1..n -> EntryPool] : n \in 1..MaxEntries}

InitialContent(f) ==
  IF f = "a.ts" THEN <<"d",",","d",")","\n","d",":">> ELSE <<":","a","n","y">>

InitMain ==
  /\ fixes \in Catalogs
  /\ disk \in {[f \in Files |-> IF f \in present THEN InitialContent(f) ELSE Missing] :
                present \in SUBSET Files}
  /\ disk0 = disk
  /\ idx = 1
  /\ files_processed = {}
  /\ log = <<>>
  /\ pc = "loop"
  /\ fix_type = "unused_param"
  /\ detail = <<>>
  /\ line_num = 0
  /\ hist = <<>>
  /\ status = "ok"

\* full_path.exists()
exists(f) == disk[f] # Missing

\* variant: the content as it was when the run started
read_file_stale(f) == disk0[f]

\* read_file: the content on disk now
read_file(f) == disk[f]

Prefixes(s) == {SubSeq(s, 1, n) : n \in 0..Len(s)}

InLoop == pc = "loop" /\ idx <= Len(fixes)

Continue(msg) ==
  /\ log' = Append(log, msg)
  /\ idx' = idx + 1
  /\ pc' = pc
  /\ UNCHANGED fixes
  /\ UNCHANGED disk0
  /\ UNCHANGED ruleVars

\* if not full_path.exists(): print; continue
EntryFileNotFound ==
  /\ InLoop
  /\ ~exists(fixes[idx].file)
  /\ Continue("File not found")
  /\ UNCHANGED <<disk, files_processed>>

\* read_file caught an exception and returned None: continue
EntryReadFails ==
  /\ InLoop
  /\ exists(fixes[idx].file)
  /\ Continue("Error reading")
  /\ UNCHANGED <<disk, files_processed>>

Rewritten(e) == apply_fix(e.type, read_file(e.file), e.line, e.detail)

\* the rule returned and write_file returned True
EntryFixed ==
  /\ InLoop
  /\ exists(fixes[idx].file)
  /\ LET e == fixes[idx]
         r == Rewritten(e)
     IN /\ ~r.raised
        /\ disk' = [disk EXCEPT ![e.file] = r.value]
        /\ files_processed' = files_processed \cup {e.file}
  /\ Continue("Fixing")

\* the rule returned and write_file caught an exception: open() failed and
\* the file is as it was, or the file was truncated by open() and holds
\* whatever part of the new content reached it
EntryWriteFails ==
  /\ InLoop
  /\ exists(fixes[idx].file)
  /\ LET e == fixes[idx]
         r == Rewritten(e)
     IN /\ ~r.raised
        /\ \E c \in {disk[e.file]} \cup Prefixes(r.value) :
              disk' = [disk EXCEPT ![e.file] = c]
        /\ files_processed' = files_processed
  /\ Continue("Error writing")

\* the rule raised re.error: nothing in main catches it
EntryRaises ==
  /\ InLoop
  /\ exists(fixes[idx].file)
  /\ Rewritten(fixes[idx]).raised
  /\ log' = Append(log, "Traceback")
  /\ pc' = "aborted"
  /\ UNCHANGED <<fixes, disk, disk0, idx, files_processed>>
  /\ UNCHANGED ruleVars

\* the loop is over: print the summary
Summary ==
  /\ pc = "loop"
  /\ idx > Len(fixes)
  /\ pc' = "done"
  /\ UNCHANGED <<fixes, disk, disk0, idx, files_processed, log>>
  /\ UNCHANGED ruleVars

NextMain ==
  \/ EntryFileNotFound
  \/ EntryReadFails
  \/ EntryFixed
  \/ EntryWriteFails
  \/ EntryRaises
  \/ Summary

SpecMain == InitMain /\ [][NextMain]_vars

(***************************************************************************)
(* Properties of the rules (specification Spec).  hist[1] is the input      *)
(* document, hist[k+1] the document returned by the k-th application of     *)
(* the rule named by fix_type, detail and line_num.                         *)
(***************************************************************************)
Applied == Len(hist) >= 2

Targeted(doc) == line_num >= 1 /\ line_num <= Len(split(doc))

TargetLine(doc) == IF Targeted(doc) THEN split(doc)[line_num] ELSE <<>>

IsIdentifier(name) == Len(name) >= 1 /\ \A i \in 1..Len(name) : IsWord(name[i])

OccursAt(name, s, p) ==
  /\ p + Len(name) <= Len(s)
  /\ SubSeq(s, p + 1, p + Len(name)) = name

Occurrences(name, s) == Cardinality({p \in 0..Len(s) : OccursAt(name, s, p)})

\* C1: whatever the category, the returned document has as many lines as
\* the input and every line other than line_num is the input's line; the
\* import rule blanks its line and keeps the line count.
C1_FramePreserved ==
  \A k \in 2..Len(hist) :
    LET before == split(hist[k-1])
        after  == split(hist[k])
    IN /\ Len(after) = Len(before)
       /\ \A i \in 1..Len(before) : i # line_num => after[i] = before[i]

C1_Witness ==
  /\ fix_type = "unused_import"
  /\ Applied
  /\ Targeted(hist[1])
  /\ Len(split(hist[1])) >= 2
  /\ TargetLine(hist[1]) # <<>>
  /\ TargetLine(hist[2]) = <<>>

\* C2: with line_num out of bounds (0, negative, beyond the last line) the
\* rule returns the input document and does not raise, whatever the detail.
C2_OutOfBoundsNoOp ==
  (line_num < 1 \/ line_num > Len(split(hist[1]))) =>
     /\ status = "ok"
     /\ \A k \in 2..Len(hist) : hist[k] = hist[1]

C2_Witness ==
  /\ Applied
  /\ line_num = 0
  /\ fix_type = "unused_var"
  /\ ~IsIdentifier(detail)
  /\ hist[2] = hist[1]

\* C3 as stated: a second application of the same rule changes nothing,
\* for every category and every line.
C3_Idempotent == Len(hist) >= 3 => hist[3] = hist[2]

\* C3 as amended: a second application changes nothing for explicit_any and
\* empty_object on every line, for unused_param and unused_var on a line
\* in which the identifier occurs at most once, and for unused_import on a
\* line that the first application blanked.
C3_Covered ==
  \/ fix_type \in {"explicit_any", "empty_object"}
  \/ /\ fix_type = "unused_param"
     /\ Occurrences(s_request, TargetLine(hist[1])) <= 1
  \/ /\ fix_type = "unused_var"
     /\ IsIdentifier(detail)
     /\ Occurrences(detail, TargetLine(hist[1])) <= 1
  \/ /\ fix_type = "unused_import"
     /\ Targeted(hist[1])
     /\ TargetLine(hist[2]) = <<>>

C3_IdempotentWhereCovered ==
  (Len(hist) >= 3 /\ C3_Covered) => hist[3] = hist[2]

C3_Witness ==
  /\ Len(hist) >= 3
  /\ fix_type = "unused_var"
  /\ Occurrences(detail, TargetLine(hist[1])) = 1
  /\ hist[2] # hist[1]
  /\ hist[3] = hist[2]

\* the names of a brace list: the text between the first { and the next },
\* cut at the commas, without the surrounding blanks
RECURSIVE CutAt(_, _)
CutAt(s, c) ==
  IF \A i \in 1..Len(s) : s[i] # c THEN <<s>>
  ELSE LET p == CHOOSE i \in 1..Len(s) : s[i] = c /\ \A j \in 1..(i-1) : s[j] # c
       IN <<SubSeq(s, 1, p-1)>> \o CutAt(SubSeq(s, p+1, Len(s)), c)

RECURSIVE Strip(_)
Strip(s) ==
  IF Len(s) = 0 THEN s
  ELSE IF IsSpace(s[1]) THEN Strip(Tail(s))
  ELSE IF IsSpace(s[Len(s)]) THEN Strip(SubSeq(s, 1, Len(s) - 1))
  ELSE s

HasBraceList(l) == Len(CutAt(l, "{")) >= 2 /\ Len(CutAt(CutAt(l, "{")[2], "}")) >= 2

BraceNames(l) ==
  LET inner == CutAt(CutAt(l, "{")[2], "}")[1]
      parts == CutAt(inner, ",")
  IN [i \in 1..Len(parts) |-> Strip(parts[i])]

Without(names, d) == SelectSeq(names, LAMBDA n : n # d)

IsNameList(l) ==
  /\ HasBraceList(l)
  /\ Len(CutAt(l, "{")) = 2
  /\ \A i \in 1..Len(BraceNames(l)) : IsIdentifier(BraceNames(l)[i])

\* C6: removing D from a brace list that holds D and another name leaves
\* every other name, unchanged and in order, one comma between neighbours
\* and no comma next to a brace.
C6_OtherNamesKept ==
  LET old == TargetLine(hist[1])
      new == TargetLine(hist[2])
  IN (/\ fix_type = "unused_import"
      /\ Applied
      /\ Targeted(hist[1])
      /\ IsIdentifier(detail)
      /\ IsNameList(old)
      /\ \E i \in 1..Len(BraceNames(old)) : BraceNames(old)[i] = detail
      /\ \E i \in 1..Len(BraceNames(old)) : BraceNames(old)[i] # detail)
     => /\ IsNameList(new)
        /\ BraceNames(new) = Without(BraceNames(old), detail)

FamilyPatterns ==
  IF fix_type = "unused_param" THEN unused_param_patterns ELSE unused_var_patterns(detail)

\* C7: unused_param and unused_var rewrite the leftmost match of the first
\* sub-pattern that matches, once, and nothing else on the line.
C7_FirstMatchOnce ==
  (/\ fix_type \in {"unused_param", "unused_var"}
   /\ Applied
   /\ Targeted(hist[1]))
  => TargetLine(hist[2]) = first_match_sub(FamilyPatterns, 1, TargetLine(hist[1]), 1)

AnyPatterns == <<any_colon, any_angle, any_as>>
EmptyPatterns == <<empty_colon, empty_angle>>

Matching(pats, l) == {i \in 1..Len(pats) : re_search(pats[i], l)}

\* C8: after explicit_any, or empty_object, the target line holds no match
\* of any sub-pattern of the family, however many were there before.
C8_NoMatchRemains ==
  \A k \in 2..Len(hist) :
    Targeted(hist[1]) =>
      /\ fix_type = "explicit_any" => Matching(AnyPatterns, TargetLine(hist[k])) = {}
      /\ fix_type = "empty_object" => Matching(EmptyPatterns, TargetLine(hist[k])) = {}

C8_Witness ==
  /\ fix_type = "explicit_any"
  /\ Applied
  /\ Targeted(hist[1])
  /\ Cardinality(Matching(AnyPatterns, TargetLine(hist[1]))) >= 2
  /\ Matching(AnyPatterns, TargetLine(hist[2])) = {}

\* C9: no rule raises, whatever the line and the detail.
C9_NeverRaises == status = "ok"

\* C10: when unused_var changes the line, the new line is the old line with
\* one underscore inserted right before an occurrence of D that stands as a
\* whole identifier; nothing else differs.
C10_OnlyUnderscoreInserted ==
  LET old == TargetLine(hist[1])
      new == TargetLine(hist[2])
  IN (/\ fix_type = "unused_var"
      /\ Applied
      /\ Targeted(hist[1])
      /\ new # old)
     => \E p \in 0..Len(old) :
          /\ new = SubSeq(old, 1, p) \o <<"_">> \o SubSeq(old, p + 1, Len(old))
          /\ OccursAt(detail, old, p)
          /\ p >= 1 => ~IsWord(old[p])
          /\ p + Len(detail) < Len(old) => ~IsWord(old[p + Len(detail) + 1])


(***************************************************************************)
(* Properties of the batch loop (specification SpecMain).                   *)
(***************************************************************************)
Failures == {"File not found", "Error reading", "Error writing"}

\* C4: every step of the loop handles the next entry of the catalog and
\* goes on, a failing entry leaves the disk as it was, and so the loop ends
\* in the summary.
C4_FailuresContained ==
  [][InLoop => /\ pc' = "loop"
               /\ idx' = idx + 1
               /\ log'[idx] \in Failures => disk' = disk]_vars

\* the content of f after the first k entries, had each persisted entry
\* been applied in catalog order to the content the run started with
RECURSIVE Composed(_, _)
Composed(f, k) ==
  IF k = 0 THEN disk0[f]
  ELSE LET e == fixes[k]
           c == Composed(f, k - 1)
       IN IF e.file = f /\ log[k] = "Fixing"
          THEN apply_fix(e.type, c, e.line, e.detail).value
          ELSE c

WriteFailed(f) == \E k \in 1..Len(log) : fixes[k].file = f /\ log[k] = "Error writing"

\* C5: each entry is applied to what is on disk when it is processed, so
\* the file always equals the rewrites of the entries persisted so far,
\* applied one after the other in catalog order to the original content
\* (a file for which a write failed aside).
C5_ComposesInOrder ==
  \A f \in Files : ~WriteFailed(f) => disk[f] = Composed(f, Len(log))

C5_Witness ==
  /\ pc = "done"
  /\ \E i, j \in 1..Len(fixes) :
       /\ i < j
       /\ fixes[i].file = fixes[j].file
       /\ log[i] = "Fixing" /\ log[j] = "Fixing"
       /\ LET f == fixes[j].file
              once(e) == apply_fix(e.type, disk0[f], e.line, e.detail).value
          IN /\ disk[f] # disk0[f]
             /\ disk[f] # once(fixes[i])
             /\ disk[f] # once(fixes[j])

====
